---- MODULE Spec2Model ----
(***************************************************************************)
(* Mark and Sweep garbage collector (mark_and_sweep.py): ManagedObject and *)
(* MarkAndSweepGC.  Objects are identified by their id; a caller keeps    *)
(* every handle it was ever given, so every created object can be passed   *)
(* to add_reference, remove_reference, add_root and remove_root.           *)
(***************************************************************************)
EXTENDS Integers, Sequences, FiniteSets, TLC

\* Bounds of Spec and SpecCycles: a small heap.
MaxObjects == 2      \* ManagedObject creations
MaxEdges == 2        \* references held by all objects together
MaxCycles == 2       \* completed collect() calls in Spec
LongCycles == 3      \* completed collect() calls in SpecCycles
\* Bounds of SpecHeap and SpecPhases: a larger heap.
HeapObjects == 3
HeapEdges == 3
HeapCycles == 2
\* Bounds of SpecShell: a session of the interactive shell.
ShellObjects == 3
ShellEdges == 3
ShellCycles == 2
\* Bounds of SpecMark: the heaps on which mark_phase() is run statement by
\* statement.
MarkObjects == 3
MarkEdges == 3

VARIABLES
    id_counter,          \* ManagedObject._id_counter
    references,          \* references[o]: the list o.references
    state,               \* state[o]: o.state
    all_objects,         \* MarkAndSweepGC.all_objects
    roots,               \* MarkAndSweepGC.roots
    collected_count,     \* MarkAndSweepGC.collected_count
    collection_history,  \* MarkAndSweepGC.collection_history
    call,                \* the most recent call and what it returned
    pc,                  \* where a mark_phase() run statement by statement is
    pending,             \* the roots its loop over self.roots has yet to visit
    stack,               \* its active mark() calls, innermost last
    marks,               \* marks[o]: how often it has set o.state to MARKED
    objects              \* GCShell.objects: the shell's map from name to object

\* The variables of a mark_phase() run statement by statement.
markvars == <<pc, pending, stack, marks>>

vars == <<id_counter, references, state, all_objects, roots, collected_count,
          collection_history, call, pc, pending, stack, marks, objects>>

\* ObjectState
UNMARKED == "unmarked"
MARKED == "marked"
COLLECTED == "collected"

\* The objects created so far: the handles a caller can hold.
Created == 1..id_counter

NoStats ==
    [initial_objects |-> 0, marked_objects |-> 0, collected_objects |-> 0,
     final_objects |-> 0, roots |-> 0]

\* A call record.  op: "collect", "mark_phase", "sweep_phase", "get_stats", or
\* "other" for the remaining methods (which return nothing); val: the integer
\* mark_phase or sweep_phase returns; stats: the dict collect() or get_stats()
\* returns.
CallRec(op, val, stats) == [op |-> op, val |-> val, stats |-> stats]

\* obj in self.references
InList(s, x) == \E i \in DOMAIN s : s[i] = x

\* list.remove(x): removes the first occurrence of x
ListRemove(s, x) ==
    LET k == CHOOSE i \in DOMAIN s : s[i] = x /\ \A j \in 1..(i - 1) : s[j] # x
    IN  [i \in 1..(Len(s) - 1) |-> IF i < k THEN s[i] ELSE s[i + 1]]

\* Mutant of AddRef: the membership test is missing.
AddRef_always(refs, obj) == Append(refs, obj)

\* add_reference, lines 34-35: the reference list after the call
AddRef(refs, obj) == IF ~InList(refs, obj) THEN Append(refs, obj) ELSE refs

\* Mutant of RemoveRef: the last reference is dropped, whatever it is.
RemoveRef_last(refs, obj) ==
    IF InList(refs, obj) THEN SubSeq(refs, 1, Len(refs) - 1) ELSE refs

\* remove_reference, lines 39-40: the reference list after the call
RemoveRef(refs, obj) == IF InList(refs, obj) THEN ListRemove(refs, obj) ELSE refs

RECURSIVE SumLen(_, _)
SumLen(refs, S) ==
    IF S = {} THEN 0
    ELSE LET o == CHOOSE x \in S : TRUE IN Len(refs[o]) + SumLen(refs, S \ {o})

\* Number of references held by all objects together.
EdgeCount == SumLen(references, DOMAIN references)

\* The orders in which a set can be iterated.
\* An empty name-to-object map.
NoObjects == [n \in {} |-> 0]

Orders(S) ==
    {f \in [1..Cardinality(S) -> S] : \A i, j \in DOMAIN f : f[i] = f[j] => i = j}

Init ==
    /\ id_counter = 0
    /\ references = << >>
    /\ state = << >>
    /\ all_objects = {}
    /\ roots = {}
    /\ collected_count = 0
    /\ collection_history = << >>
    /\ call = CallRec("other", 0, NoStats)
    /\ pc = "idle"
    /\ pending = << >>
    /\ stack = << >>
    /\ marks = << >>
    /\ objects = NoObjects

\* Mutant of allocate: the new object is not added to all_objects.
allocate_unregistered(maxObjects) ==
    /\ id_counter < maxObjects
    /\ id_counter' = id_counter + 1
    /\ references' = references @@ (id_counter' :> << >>)
    /\ state' = state @@ (id_counter' :> UNMARKED)
    /\ call' = CallRec("other", 0, NoStats)
    /\ UNCHANGED markvars
    /\ UNCHANGED <<all_objects, roots, collected_count, collection_history>>

\* Mutant of allocate: the new object starts out marked.
allocate_marked(maxObjects) ==
    /\ id_counter < maxObjects
    /\ id_counter' = id_counter + 1
    /\ references' = references @@ (id_counter' :> << >>)
    /\ state' = state @@ (id_counter' :> MARKED)
    /\ all_objects' = all_objects \cup {id_counter'}
    /\ call' = CallRec("other", 0, NoStats)
    /\ UNCHANGED markvars
    /\ UNCHANGED <<roots, collected_count, collection_history>>

\* Mutant of allocate: the id is the number of live objects plus one.
allocate_reusing(maxObjects) ==
    LET id == Cardinality(all_objects) + 1 IN
    /\ id_counter < maxObjects
    /\ id_counter' = id
    /\ references' = (id :> << >>) @@ references
    /\ state' = (id :> UNMARKED) @@ state
    /\ all_objects' = all_objects \cup {id}
    /\ call' = CallRec("other", 0, NoStats)
    /\ UNCHANGED markvars
    /\ UNCHANGED <<roots, collected_count, collection_history>>

\* ManagedObject.__init__ via MarkAndSweepGC.allocate
allocate(maxObjects) ==
    /\ id_counter < maxObjects
    /\ id_counter' = id_counter + 1
    /\ references' = references @@ (id_counter' :> << >>)
    /\ state' = state @@ (id_counter' :> UNMARKED)
    /\ all_objects' = all_objects \cup {id_counter'}
    /\ call' = CallRec("other", 0, NoStats)
    /\ UNCHANGED markvars
    /\ UNCHANGED <<roots, collected_count, collection_history>>

\* ManagedObject.__init__ run for another collector (or by the caller): the
\* class-level counter advances, this collector's all_objects does not change.
allocate_elsewhere(maxObjects) ==
    /\ id_counter < maxObjects
    /\ id_counter' = id_counter + 1
    /\ references' = references @@ (id_counter' :> << >>)
    /\ state' = state @@ (id_counter' :> UNMARKED)
    /\ call' = CallRec("other", 0, NoStats)
    /\ UNCHANGED markvars
    /\ UNCHANGED <<all_objects, roots, collected_count, collection_history>>

\* ManagedObject.add_reference
add_reference(self, obj, maxEdges) ==
    /\ InList(references[self], obj) \/ EdgeCount < maxEdges
    /\ references' = [references EXCEPT ![self] = AddRef(@, obj)]
    /\ call' = CallRec("other", 0, NoStats)
    /\ UNCHANGED markvars
    /\ UNCHANGED <<id_counter, state, all_objects, roots, collected_count,
                   collection_history>>

\* ManagedObject.remove_reference
remove_reference(self, obj) ==
    /\ references' = [references EXCEPT ![self] = RemoveRef(@, obj)]
    /\ call' = CallRec("other", 0, NoStats)
    /\ UNCHANGED markvars
    /\ UNCHANGED <<id_counter, state, all_objects, roots, collected_count,
                   collection_history>>

\* Mutant of add_root: the new root replaces the earlier ones.
add_root_replacing(obj) ==
    /\ roots' = {obj}
    /\ call' = CallRec("other", 0, NoStats)
    /\ UNCHANGED markvars
    /\ UNCHANGED <<id_counter, references, state, all_objects, collected_count,
                   collection_history>>

\* MarkAndSweepGC.add_root
add_root(obj) ==
    /\ roots' = roots \cup {obj}
    /\ call' = CallRec("other", 0, NoStats)
    /\ UNCHANGED markvars
    /\ UNCHANGED <<id_counter, references, state, all_objects, collected_count,
                   collection_history>>

\* MarkAndSweepGC.remove_root
remove_root(obj) ==
    /\ roots' = IF obj \in roots THEN roots \ {obj} ELSE roots
    /\ call' = CallRec("other", 0, NoStats)
    /\ UNCHANGED markvars
    /\ UNCHANGED <<id_counter, references, state, all_objects, collected_count,
                   collection_history>>

\* Mutant of ResetAll: the marks of the previous cycle are left in place.
ResetAll_skipped(st, objs) == st

\* mark_phase, lines 103-105: reset every member of all_objects
ResetAll(st, objs) == [o \in DOMAIN st |-> IF o \in objs THEN UNMARKED ELSE st[o]]

\* Mutant of mark: the object is marked, its references are not followed.
mark_shallow(st, obj) == IF st[obj] = MARKED THEN st ELSE [st EXCEPT ![obj] = MARKED]

\* Mutant of AlreadyMarked: the check is missing.
AlreadyMarked_never(st, obj) == FALSE

\* mark, line 84: the check that ends the recursion
AlreadyMarked(st, obj) == st[obj] = MARKED

RECURSIVE mark(_, _), markRefs(_, _, _)
\* MarkAndSweepGC.mark: st is the state of every object, the result is the
\* state of every object when the call returns.
mark(st, obj) ==
    IF AlreadyMarked(st, obj)
    THEN st
    ELSE markRefs([st EXCEPT ![obj] = MARKED], references[obj], 1)

\* mark, lines 92-93: the loop over obj.references, from position i on
markRefs(st, refs, i) ==
    IF i > Len(refs) THEN st ELSE markRefs(mark(st, refs[i]), refs, i + 1)

\* Mutant of markRoots: the loop stops after the first root.
markRoots_first(st, order, i) ==
    IF i > Len(order) THEN st ELSE mark(st, order[i])

RECURSIVE markRoots(_, _, _)
\* mark_phase, lines 107-109: the loop over self.roots, iterated in `order`
markRoots(st, order, i) ==
    IF i > Len(order) THEN st ELSE markRoots(mark(st, order[i]), order, i + 1)

\* Mutant of MarkedCount: every marked object is counted, member or not.
MarkedCount_anywhere(st, objs) == Cardinality({o \in DOMAIN st : st[o] = MARKED})

\* mark_phase, lines 111-114: count the marked members
MarkedCount(st, objs) == Cardinality({o \in objs : st[o] = MARKED})

\* Mutant of mark_phase_state: the loop over the roots is missing.
mark_phase_state_unrooted(order) == ResetAll(state, all_objects)

\* The object states when mark_phase returns.
mark_phase_state(order) == markRoots(ResetAll(state, all_objects), order, 1)

\* Mutant of Garbage: nothing is taken for garbage.
Garbage_nothing(st, objs) == {}

\* Mutant of Garbage: every member is taken for garbage.
Garbage_everything(st, objs) == objs

\* sweep_phase, lines 127-130: the unmarked members
Garbage(st, objs) == {o \in objs : st[o] = UNMARKED}

\* sweep_phase, line 131
SweepState(st, collected) == [o \in DOMAIN st |-> IF o \in collected THEN COLLECTED ELSE st[o]]

\* Mutant of SweepObjects: the collected objects stay in the set.
SweepObjects_kept(objs, collected) == objs

\* sweep_phase, lines 134-136
SweepObjects(objs, collected) == objs \ collected

\* Mutant of RecordCycle: only the latest cycle is kept.
RecordCycle_latest(history, stats) == <<stats>>

\* collect, line 171: self.collection_history.append(stats)
RecordCycle(history, stats) == Append(history, stats)

\* MarkAndSweepGC.mark_phase
mark_phase(order) ==
    /\ state' = mark_phase_state(order)
    /\ call' = CallRec("mark_phase", MarkedCount(state', all_objects), NoStats)
    /\ UNCHANGED markvars
    /\ UNCHANGED <<id_counter, references, all_objects, roots, collected_count,
                   collection_history>>

\* MarkAndSweepGC.sweep_phase
sweep_phase ==
    LET collected == Garbage(state, all_objects) IN
    /\ state' = SweepState(state, collected)
    /\ all_objects' = SweepObjects(all_objects, collected)
    /\ collected_count' = collected_count + Cardinality(collected)
    /\ call' = CallRec("sweep_phase", Cardinality(collected), NoStats)
    /\ UNCHANGED markvars
    /\ UNCHANGED <<id_counter, references, roots, collection_history>>

\* Mutant of collect: the sweep clears the reference list of a swept object
\* and takes the swept objects out of roots.
collect_unlinking(order, maxCycles) ==
    LET marked_state == mark_phase_state(order)
        garbage == Garbage(marked_state, all_objects)
        final_objects == SweepObjects(all_objects, garbage)
        stats == [initial_objects |-> Cardinality(all_objects),
                  marked_objects |-> MarkedCount(marked_state, all_objects),
                  collected_objects |-> Cardinality(garbage),
                  final_objects |-> Cardinality(final_objects),
                  roots |-> Cardinality(roots)]
    IN
    /\ Len(collection_history) < maxCycles
    /\ state' = SweepState(marked_state, garbage)
    /\ all_objects' = final_objects
    /\ collected_count' = collected_count + Cardinality(garbage)
    /\ collection_history' = RecordCycle(collection_history, stats)
    /\ call' = CallRec("collect", 0, stats)
    /\ references' = [o \in DOMAIN references |->
                         IF o \in garbage THEN << >> ELSE references[o]]
    /\ roots' = roots \ garbage
    /\ UNCHANGED markvars
    /\ UNCHANGED id_counter

\* MarkAndSweepGC.collect
collect(order, maxCycles) ==
    LET initial_count == Cardinality(all_objects)
        marked_state == mark_phase_state(order)
        marked_count == MarkedCount(marked_state, all_objects)
        garbage == Garbage(marked_state, all_objects)
        collected == Cardinality(garbage)
        final_objects == SweepObjects(all_objects, garbage)
        stats == [initial_objects |-> initial_count,
                  marked_objects |-> marked_count,
                  collected_objects |-> collected,
                  final_objects |-> Cardinality(final_objects),
                  roots |-> Cardinality(roots)]
    IN
    /\ Len(collection_history) < maxCycles
    /\ state' = SweepState(marked_state, garbage)
    /\ all_objects' = final_objects
    /\ collected_count' = collected_count + collected
    /\ collection_history' = RecordCycle(collection_history, stats)
    /\ call' = CallRec("collect", 0, stats)
    /\ UNCHANGED markvars
    /\ UNCHANGED <<id_counter, references, roots>>

\* Mutant of get_stats: total_objects counts every object ever created.
get_stats_created ==
    [total_objects |-> id_counter,
     root_objects |-> Cardinality(roots),
     total_collected |-> collected_count,
     collection_cycles |-> Len(collection_history)]

\* MarkAndSweepGC.get_stats
get_stats ==
    [total_objects |-> Cardinality(all_objects),
     root_objects |-> Cardinality(roots),
     total_collected |-> collected_count,
     collection_cycles |-> Len(collection_history)]

\* A call of get_stats(): the dict it returns is recorded, nothing else changes.
GetStats ==
    /\ call' = CallRec("get_stats", 0, get_stats)
    /\ UNCHANGED markvars
    /\ UNCHANGED objects
    /\ UNCHANGED <<id_counter, references, state, all_objects, roots,
                   collected_count, collection_history>>

\* The operations as a program calls them on any handle it holds, with no
\* shell around the collector.
Allocate(n) == allocate(n) /\ UNCHANGED objects
AllocateElsewhere(n) == allocate_elsewhere(n) /\ UNCHANGED objects
AddReference(e) ==
    /\ \E self \in Created : \E obj \in Created : add_reference(self, obj, e)
    /\ UNCHANGED objects
RemoveReference ==
    /\ \E self \in Created : \E obj \in Created : remove_reference(self, obj)
    /\ UNCHANGED objects
AddRoot == (\E obj \in Created : add_root(obj)) /\ UNCHANGED objects
RemoveRoot == (\E obj \in Created : remove_root(obj)) /\ UNCHANGED objects
MarkPhase == (\E order \in Orders(roots) : mark_phase(order)) /\ UNCHANGED objects
SweepPhase == sweep_phase /\ UNCHANGED objects
Collect(c) == (\E order \in Orders(roots) : collect(order, c)) /\ UNCHANGED objects

\* Every public operation of the collector and of the objects.
Next ==
    \/ Allocate(MaxObjects)
    \/ AddReference(MaxEdges)
    \/ RemoveReference
    \/ AddRoot
    \/ RemoveRoot
    \/ MarkPhase
    \/ SweepPhase
    \/ Collect(MaxCycles)

Spec == Init /\ [][Next]_vars

\* The operations of a caller that runs whole cycles only.
NextCycles ==
    \/ Allocate(MaxObjects)
    \/ AddReference(MaxEdges)
    \/ RemoveReference
    \/ AddRoot
    \/ RemoveRoot
    \/ Collect(LongCycles)

SpecCycles == Init /\ [][NextCycles]_vars

\* The same caller on the larger heap.
NextHeap ==
    \/ Allocate(HeapObjects)
    \/ AddReference(HeapEdges)
    \/ RemoveReference
    \/ AddRoot
    \/ RemoveRoot
    \/ Collect(HeapCycles)

SpecHeap == Init /\ [][NextHeap]_vars

\* The two phases called on their own, on the larger heap.
NextPhases ==
    \/ Allocate(HeapObjects)
    \/ AddReference(HeapEdges)
    \/ RemoveReference
    \/ AddRoot
    \/ RemoveRoot
    \/ MarkPhase
    \/ SweepPhase

SpecPhases == Init /\ [][NextPhases]_vars

\* add_root called with a live object only (test_add_remove_root,
\* test_simple_garbage_collection: the root is a fresh result of allocate).
AddLiveRoot == (\E obj \in all_objects : add_root(obj)) /\ UNCHANGED objects

\* A caller that runs whole cycles and roots live objects only.
NextLiveRoots ==
    \/ Allocate(HeapObjects)
    \/ AddReference(HeapEdges)
    \/ RemoveReference
    \/ AddLiveRoot
    \/ RemoveRoot
    \/ Collect(HeapCycles)

SpecLiveRoots == Init /\ [][NextLiveRoots]_vars

\* add_reference with a live target only (test_add_reference,
\* test_circular_reference_collection: the target is a fresh result of
\* allocate).
AddLiveReference(e) ==
    /\ \E self \in Created : \E obj \in all_objects : add_reference(self, obj, e)
    /\ UNCHANGED objects

\* A caller that runs whole cycles and hands only live objects to add_root
\* and as the target of add_reference.
NextLiveGraph ==
    \/ Allocate(HeapObjects)
    \/ AddLiveReference(HeapEdges)
    \/ RemoveReference
    \/ AddLiveRoot
    \/ RemoveRoot
    \/ Collect(HeapCycles)

SpecLiveGraph == Init /\ [][NextLiveGraph]_vars

\* Every public operation, get_stats() included (test_stats_tracking).
NextStats ==
    \/ Next
    \/ GetStats

SpecStats == Init /\ [][NextStats]_vars

\* Two collectors in one process: the objects of the other one come from the
\* same ManagedObject class.
NextIds ==
    \/ Allocate(HeapObjects)
    \/ AllocateElsewhere(HeapObjects)
    \/ AddReference(MaxEdges)
    \/ RemoveReference
    \/ AddRoot
    \/ RemoveRoot
    \/ Collect(MaxCycles)

SpecIds == Init /\ [][NextIds]_vars

\* The reference lists alone (test_add_reference, test_remove_reference).
NextRefs ==
    \/ Allocate(HeapObjects)
    \/ AddReference(HeapEdges)
    \/ RemoveReference

SpecRefs == Init /\ [][NextRefs]_vars

(***************************************************************************)
(* The interactive shell: a GCShell holds one collector and a map from      *)
(* names to the objects it allocated.  A command takes names, not objects.  *)
(***************************************************************************)

\* The names a user types.
Names == {"a", "b"}

\* The predefined examples: the alloc, ref and root commands each one runs.
Examples ==
    [simple |->
        [alloc |-> <<"parent", "child", "orphan">>,
         ref |-> <<<<"parent", "child">>>>,
         root |-> <<"parent">>],
     circular |->
        [alloc |-> <<"A", "B", "C">>,
         ref |-> <<<<"A", "B">>, <<"B", "C">>, <<"C", "A">>>>,
         root |-> << >>],
     tree |->
        [alloc |-> <<"root", "branch1", "branch2", "leaf1a", "leaf1b", "leaf2a">>,
         ref |-> <<<<"root", "branch1">>, <<"root", "branch2">>,
                   <<"branch1", "leaf1a">>, <<"branch1", "leaf1b">>,
                   <<"branch2", "leaf2a">>>>,
         root |-> <<"root">>],
     web |->
        [alloc |-> <<"app", "db_pool", "request1", "session1">>,
         ref |-> <<<<"app", "db_pool">>, <<"request1", "session1">>,
                   <<"request1", "db_pool">>>>,
         root |-> <<"app", "request1">>]]

\* What a user may pass to the example command.
ExampleArgs == DOMAIN Examples \cup {""}

\* The names a command can be given: the ones in the map and the user's own.
Known == Names \cup DOMAIN objects

\* A command that prints a message and returns.
Rejected ==
    /\ call' = CallRec("other", 0, NoStats)
    /\ UNCHANGED markvars
    /\ UNCHANGED <<id_counter, references, state, all_objects, roots,
                   collected_count, collection_history, objects>>

\* GCShell.do_alloc
do_alloc(name, maxObjects) ==
    IF name \in DOMAIN objects
    THEN Rejected
    ELSE /\ allocate(maxObjects)
         /\ objects' = [n \in DOMAIN objects \cup {name} |->
                           IF n = name THEN id_counter' ELSE objects[n]]

\* GCShell.do_ref
do_ref(from_name, to_name, maxEdges) ==
    IF from_name \notin DOMAIN objects \/ to_name \notin DOMAIN objects
    THEN Rejected
    ELSE /\ add_reference(objects[from_name], objects[to_name], maxEdges)
         /\ UNCHANGED objects

\* GCShell.do_unref
do_unref(from_name, to_name) ==
    IF from_name \notin DOMAIN objects \/ to_name \notin DOMAIN objects
    THEN Rejected
    ELSE /\ remove_reference(objects[from_name], objects[to_name])
         /\ UNCHANGED objects

\* GCShell.do_root
do_root(arg) ==
    IF arg \notin DOMAIN objects
    THEN Rejected
    ELSE add_root(objects[arg]) /\ UNCHANGED objects

\* GCShell.do_unroot
do_unroot(arg) ==
    IF arg \notin DOMAIN objects
    THEN Rejected
    ELSE remove_root(objects[arg]) /\ UNCHANGED objects

\* Mutant of Prune: the map keeps the names of the collected objects.
Prune_nothing(objs, live) == objs

\* do_collect, lines 130-136: the names of collected objects are deleted
Prune(objs, live) == [n \in {m \in DOMAIN objs : objs[m] \in live} |-> objs[n]]

\* GCShell.do_collect
do_collect(maxCycles) ==
    /\ \E order \in Orders(roots) : collect(order, maxCycles)
    /\ objects' = Prune(objects, all_objects')

\* GCShell.do_clear: a new collector, an empty map; the objects of the old
\* collector and the class-level id counter stay as they are.
do_clear ==
    /\ all_objects' = {}
    /\ roots' = {}
    /\ collected_count' = 0
    /\ collection_history' = << >>
    /\ objects' = NoObjects
    /\ call' = CallRec("other", 0, NoStats)
    /\ UNCHANGED markvars
    /\ UNCHANGED <<id_counter, references, state>>

\* The position of a name in the alloc commands of an example.
AllocIndex(ex, name) == CHOOSE i \in DOMAIN ex.alloc : ex.alloc[i] = name

RECURSIVE ExampleRefs(_, _, _, _)
\* The reference list the first i ref commands of an example build for the
\* object allocated under `name`; base is the id counter before the example.
ExampleRefs(ex, name, base, i) ==
    IF i = 0 THEN << >>
    ELSE LET earlier == ExampleRefs(ex, name, base, i - 1)
         IN  IF ex.ref[i][1] = name
             THEN AddRef(earlier, base + AllocIndex(ex, ex.ref[i][2]))
             ELSE earlier

\* GCShell.do_example: do_clear, then the commands of the example on the new
\* collector.
do_example(arg, maxObjects, maxEdges) ==
    IF arg \notin DOMAIN Examples
    THEN Rejected
    ELSE LET ex == Examples[arg]
             base == id_counter
             new == (base + 1)..(base + Len(ex.alloc))
         IN
         /\ base + Len(ex.alloc) <= maxObjects
         /\ EdgeCount + Len(ex.ref) <= maxEdges
         /\ id_counter' = base + Len(ex.alloc)
         /\ references' = [o \in DOMAIN references \cup new |->
                IF o \in new THEN ExampleRefs(ex, ex.alloc[o - base], base, Len(ex.ref))
                ELSE references[o]]
         /\ state' = [o \in DOMAIN state \cup new |->
                IF o \in new THEN UNMARKED ELSE state[o]]
         /\ all_objects' = new
         /\ roots' = {base + AllocIndex(ex, ex.root[i]) : i \in DOMAIN ex.root}
         /\ collected_count' = 0
         /\ collection_history' = << >>
         /\ objects' = [n \in {ex.alloc[i] : i \in DOMAIN ex.alloc} |->
                           base + AllocIndex(ex, n)]
         /\ call' = CallRec("other", 0, NoStats)
         /\ UNCHANGED markvars

DoAlloc(n) == \E name \in Names : do_alloc(name, n)
DoRef(e) == \E from_name \in Known : \E to_name \in Known : do_ref(from_name, to_name, e)
DoUnref == \E from_name \in Known : \E to_name \in Known : do_unref(from_name, to_name)
DoRoot == \E arg \in Known : do_root(arg)
DoUnroot == \E arg \in Known : do_unroot(arg)
DoCollect(c) == do_collect(c)
DoClear == do_clear
DoExample(n, e) == \E arg \in ExampleArgs : do_example(arg, n, e)

\* The shell commands alloc, ref, unref, root, unroot, collect, clear and
\* example; show, list and stats only print.
NextShell ==
    \/ DoAlloc(ShellObjects)
    \/ DoRef(ShellEdges)
    \/ DoUnref
    \/ DoRoot
    \/ DoUnroot
    \/ DoCollect(ShellCycles)
    \/ DoClear
    \/ DoExample(ShellObjects, ShellEdges)

SpecShell == Init /\ [][NextShell]_vars

(***************************************************************************)
(* mark_phase() run statement by statement, with the recursion of mark()   *)
(* as an explicit stack of calls.  A frame [obj, i] is a call mark(obj):   *)
(* i = 0 before the check of line 84, i >= 1 when the loop of line 92 is   *)
(* about to visit obj.references[i].                                       *)
(***************************************************************************)
\* The lists without duplicates over S, as add_reference builds them.
RefLists(S) ==
    UNION {{f \in [1..n -> S] : \A i, j \in 1..n : f[i] = f[j] => i = j} :
           n \in 0..Cardinality(S)}

\* The deepest recursion the model follows: one call per object and the
\* call that finds its object marked.  A deeper recursion stops the run.
StackLimit == MarkObjects + 1

\* A heap as the public operations can leave it: any references between the
\* created objects, any of them swept (a swept object is COLLECTED, or MARKED
\* when a later mark phase reached it), any of them rooted.
InitMark ==
    /\ id_counter = MarkObjects
    /\ references \in [Created -> RefLists(Created)]
    /\ EdgeCount <= MarkEdges
    /\ all_objects \in SUBSET Created
    /\ state \in [Created -> {UNMARKED, MARKED, COLLECTED}]
    /\ \A o \in Created :
          IF o \in all_objects THEN state[o] # COLLECTED ELSE state[o] # UNMARKED
    /\ roots \in SUBSET Created
    /\ collected_count = Cardinality(Created \ all_objects)
    /\ collection_history = << >>
    /\ call = CallRec("other", 0, NoStats)
    /\ pc = "idle"
    /\ pending = << >>
    /\ stack = << >>
    /\ marks = [o \in Created |-> 0]
    /\ objects = NoObjects

\* mark_phase, lines 100-105: the reset loop; the loop over self.roots will
\* run in some order
mark_phase_reset ==
    /\ pc = "idle"
    /\ state' = ResetAll(state, all_objects)
    /\ pending' \in Orders(roots)
    /\ pc' = "roots"
    /\ UNCHANGED <<id_counter, references, all_objects, roots, collected_count,
                   collection_history, call, stack, marks>>
    /\ UNCHANGED objects

\* mark_phase, lines 108-109: the next root is passed to mark()
mark_phase_root ==
    /\ pc = "roots"
    /\ pending # << >>
    /\ stack' = <<[obj |-> Head(pending), i |-> 0]>>
    /\ pending' = Tail(pending)
    /\ pc' = "mark"
    /\ UNCHANGED <<id_counter, references, state, all_objects, roots,
                   collected_count, collection_history, call, marks>>
    /\ UNCHANGED objects

\* The innermost call returns.
Return == SubSeq(stack, 1, Len(stack) - 1)

\* mark, lines 84-89: return if the object is marked, mark it otherwise
mark_enter ==
    /\ pc = "mark"
    /\ stack[Len(stack)].i = 0
    /\ LET obj == stack[Len(stack)].obj IN
       IF AlreadyMarked(state, obj)
       THEN /\ stack' = Return
            /\ pc' = IF stack' = << >> THEN "roots" ELSE "mark"
            /\ UNCHANGED <<state, marks>>
       ELSE /\ state' = [state EXCEPT ![obj] = MARKED]
            /\ marks' = [marks EXCEPT ![obj] = @ + 1]
            /\ stack' = [stack EXCEPT ![Len(stack)].i = 1]
            /\ pc' = "mark"
    /\ UNCHANGED <<id_counter, references, all_objects, roots, collected_count,
                   collection_history, call, pending>>
    /\ UNCHANGED objects

\* mark, lines 92-93: the loop calls mark() on the next reference, or is over
mark_loop ==
    /\ pc = "mark"
    /\ stack[Len(stack)].i >= 1
    /\ LET obj == stack[Len(stack)].obj
           i == stack[Len(stack)].i
       IN
       IF i <= Len(references[obj])
       THEN /\ Len(stack) < StackLimit
            /\ stack' = Append([stack EXCEPT ![Len(stack)].i = i + 1],
                               [obj |-> references[obj][i], i |-> 0])
            /\ pc' = "mark"
       ELSE /\ stack' = Return
            /\ pc' = IF stack' = << >> THEN "roots" ELSE "mark"
    /\ UNCHANGED <<id_counter, references, state, all_objects, roots,
                   collected_count, collection_history, call, pending, marks>>
    /\ UNCHANGED objects

\* mark_phase, lines 111-117: count the marked members and return
mark_phase_count ==
    /\ pc = "roots"
    /\ pending = << >>
    /\ call' = CallRec("mark_phase", MarkedCount(state, all_objects), NoStats)
    /\ pc' = "done"
    /\ UNCHANGED <<id_counter, references, state, all_objects, roots,
                   collected_count, collection_history, pending, stack, marks>>
    /\ UNCHANGED objects

NextMark ==
    \/ mark_phase_reset
    \/ mark_phase_root
    \/ mark_enter
    \/ mark_loop
    \/ mark_phase_count

\* The interpreter runs the next statement as long as there is one.
SpecMark == InitMark /\ [][NextMark]_vars /\ WF_vars(NextMark)

(***************************************************************************)
(* Reachability over the reference relation, computed as a least fixpoint  *)
(* and independently of mark().                                            *)
(***************************************************************************)
Refs(o) == {references[o][i] : i \in DOMAIN references[o]}

RECURSIVE Closure(_)
Closure(S) ==
    LET T == S \cup UNION {Refs(o) : o \in S}
    IN  IF T = S THEN S ELSE Closure(T)

RECURSIVE LiveClosure(_)
\* Reachability along paths that stay inside all_objects.
LiveClosure(S) ==
    LET T == S \cup (UNION {Refs(o) : o \in S} \cap all_objects)
    IN  IF T = S THEN S ELSE LiveClosure(T)

\* o is a member of a reference cycle whose members are all in all_objects.
OnLiveCycle(o) ==
    /\ o \in all_objects
    /\ o \in LiveClosure(Refs(o) \cap all_objects)

\* The step is a collect() call / a call of one phase on its own.
CollectStep == call'.op = "collect"
MarkPhaseStep == call'.op = "mark_phase"
SweepPhaseStep == call'.op = "sweep_phase"

\* C1: after collect() an object that was in all_objects before the call is
\* still in all_objects iff a reference path (possibly of length zero) leads
\* from some member of roots to it.
C1_ReachabilityCorrectness ==
    [][CollectStep =>
        \A o \in all_objects : (o \in all_objects') <=> (o \in Closure(roots))]_vars

\* C2: the members of a reference cycle inside all_objects (a self reference
\* included) of which no member is reachable from a root are all removed from
\* all_objects by one collect() call and all set to COLLECTED.
C2_CycleCollection ==
    [][CollectStep =>
        \A o \in all_objects :
            (OnLiveCycle(o) /\ o \notin Closure(roots))
                => (o \notin all_objects' /\ state'[o] = COLLECTED)]_vars

\* A collect() has just swept a whole cycle of three objects.
C2_Witness ==
    /\ call.op = "collect"
    /\ call.stats.collected_objects = 3
    /\ \E a, b, c \in Created \ all_objects :
          /\ a # b /\ b # c /\ a # c
          /\ references[a] = <<b>> /\ references[b] = <<c>> /\ references[c] = <<a>>
          /\ \A o \in {a, b, c} : state[o] = COLLECTED

\* C3: a collect() that directly follows a collect(), nothing having been
\* allocated, referenced or rooted in between, collects nothing and leaves
\* all_objects unchanged.
C3_IdempotentRecollection ==
    [][(call.op = "collect" /\ CollectStep) =>
        (call'.stats.collected_objects = 0 /\ all_objects' = all_objects)]_vars

\* C4: the stats of every collect() satisfy marked + collected = initial and
\* final = initial - collected, initial being the size of all_objects before
\* the call and final its size when the call returns.
C4_ConservationLaw ==
    [][CollectStep =>
        LET s == call'.stats IN
        /\ s.initial_objects = Cardinality(all_objects)
        /\ s.marked_objects + s.collected_objects = s.initial_objects
        /\ s.final_objects = s.initial_objects - s.collected_objects
        /\ s.final_objects = Cardinality(all_objects')]_vars

\* A collect() returned that kept some objects and swept others.
C4_Witness ==
    /\ call.op = "collect"
    /\ call.stats.marked_objects > 0
    /\ call.stats.collected_objects > 0

\* Every root and every reference target of a member is a member.
GraphInsideHeap ==
    /\ roots \subseteq all_objects
    /\ \A o \in all_objects : Refs(o) \subseteq all_objects

\* C5: when every root and every reference target is in all_objects, then
\* after mark_phase() a member is MARKED if it is reachable from a root and
\* UNMARKED if it is not, whatever its state was before, and the value
\* returned is the number of MARKED members.
C5_MarkPhaseContract ==
    [][(MarkPhaseStep /\ GraphInsideHeap) =>
        /\ \A o \in all_objects :
              state'[o] = IF o \in Closure(roots) THEN MARKED ELSE UNMARKED
        /\ call'.val = Cardinality({o \in all_objects : state'[o] = MARKED})]_vars

\* mark_phase() returned on a heap that holds its whole graph, having marked
\* a member that is no root and left another member unmarked.
C5_Witness ==
    /\ call.op = "mark_phase"
    /\ GraphInsideHeap
    /\ \E o \in all_objects \ roots : state[o] = MARKED
    /\ \E o \in all_objects : state[o] = UNMARKED

\* C6: sweep_phase() removes from all_objects exactly the UNMARKED members,
\* sets each removed object to COLLECTED, keeps every MARKED member with its
\* state, returns the number removed and adds it to collected_count.
C6_SweepPhaseContract ==
    [][SweepPhaseStep =>
        LET removed == {o \in all_objects : state[o] = UNMARKED} IN
        /\ all_objects' = all_objects \ removed
        /\ \A o \in removed : state'[o] = COLLECTED
        /\ \A o \in all_objects :
              state[o] = MARKED => (o \in all_objects' /\ state'[o] = MARKED)
        /\ call'.val = Cardinality(removed)
        /\ collected_count' = collected_count + Cardinality(removed)]_vars

\* sweep_phase() returned having removed some objects and kept a marked one.
C6_Witness ==
    /\ call.op = "sweep_phase"
    /\ call.val > 0
    /\ \E o \in all_objects : state[o] = MARKED

\* C7: mark_phase() returns on every finite object graph, reference cycles
\* and self references included, and while it runs no object's state is set
\* to MARKED more than once.
C7_MarkTerminates ==
    /\ <>(pc = "done")
    /\ [](\A o \in DOMAIN marks : marks[o] <= 1)

\* mark_phase() has returned after mark() met a marked object on a cycle:
\* an object that references itself, or two objects that reference each
\* other, each marked once.
C7_Witness ==
    /\ pc = "done"
    /\ \E a, b \in DOMAIN marks :
          /\ marks[a] = 1 /\ marks[b] = 1
          /\ InList(references[a], b) /\ InList(references[b], a)

\* C8: a collect() keeps every member of a cycle of which a member is
\* reachable from a root, and removes every member of a cycle of which no
\* member is reachable from a root (Scenario C: A->B->C->A with roots = {A} is
\* kept whole, and swept whole by the collect() after remove_root(A)).
C8_RootedCycle ==
    [][CollectStep =>
        \A o \in all_objects :
            OnLiveCycle(o) =>
                ((o \in all_objects') <=> (o \in Closure(roots)))]_vars

\* The members of all_objects that a collect() run now would keep.
Survivors(order) ==
    SweepObjects(all_objects, Garbage(mark_phase_state(order), all_objects))

\* Some object is reachable from two or more roots.
SharedByRoots == \E x \in Created : Cardinality({q \in roots : x \in Closure({q})}) >= 2

\* C9: when some object is reachable from two or more roots, remove_root of
\* one of them followed by collect() removes, of the objects those roots
\* reached, exactly the ones reachable only through the removed root, and
\* keeps every object still reachable from a remaining root.
C9_SharedObjectsOutliveRoot ==
    [][(SharedByRoots /\ \E r \in roots : roots' = roots \ {r}) =>
        \A order \in Orders(roots') :
            \A o \in all_objects \cap Closure(roots) :
                (o \in Survivors(order)') <=> (o \in Closure(roots'))]_vars

\* C10: no member of all_objects has state COLLECTED.
C10_NoCollectedMember ==
    \A o \in all_objects : state[o] \in {UNMARKED, MARKED}

\* Some object has been swept while another is still in all_objects.
C10_Witness ==
    /\ \E o \in Created \ all_objects : state[o] = COLLECTED
    /\ all_objects # {}

\* C11: COLLECTED is terminal: an object whose state is COLLECTED keeps that
\* state in every later step and never is a member of all_objects again.
C11_CollectedIsTerminal ==
    [][\A o \in DOMAIN state :
          state[o] = COLLECTED => (state'[o] = COLLECTED /\ o \notin all_objects')]_vars

\* C13: add_root and remove_root called with an object that is not in
\* all_objects are rejected and leave roots unchanged: roots only ever changes
\* by a member of all_objects.
C13_UnknownObjectRejected ==
    [][\A o \in (roots' \ roots) \cup (roots \ roots') : o \in all_objects]_vars

RECURSIVE SumCollected(_)
\* The sum of the collected_objects fields of a history.
SumCollected(h) ==
    IF h = << >> THEN 0 ELSE h[Len(h)].collected_objects + SumCollected(SubSeq(h, 1, Len(h) - 1))

\* C14: a cycle is atomic for the caller: no phase returns to the caller on
\* its own, so in every state the caller can observe, each mark phase that
\* was run has been followed by its sweep, its collected_count update and its
\* collection_history entry: the operation that last returned to the caller
\* is never a mark phase or a sweep phase alone.
C14_CycleAtomicity ==
    call.op \notin {"mark_phase", "sweep_phase"}

\* C15: collected_count equals the sum of the collected_objects fields of
\* the entries of collection_history.
C15_CountMatchesHistory ==
    collected_count = SumCollected(collection_history)

\* C12: when add_root is only called with members of all_objects and the
\* phases only run inside collect, every root is a member of all_objects.
C12_RootsNeverSwept == roots \subseteq all_objects

\* A cycle that swept an object and left a root in place.
C12_Witness ==
    /\ call.op = "collect"
    /\ call.stats.collected_objects > 0
    /\ roots # {}

\* C16: collection_history is append-only: a collect() call appends exactly
\* one entry at the end, equal to the stats it returns, and keeps the earlier
\* entries; no other operation changes the history; collection_cycles of
\* get_stats() grows by one with every collect() call and at no other time.
C16_HistoryAppendOnly ==
    [][/\ CollectStep =>
            /\ collection_history' = Append(collection_history, call'.stats)
            /\ get_stats'.collection_cycles = get_stats.collection_cycles + 1
       /\ ~CollectStep =>
            /\ collection_history' = collection_history
            /\ get_stats'.collection_cycles = get_stats.collection_cycles]_vars

\* A second cycle was recorded behind a first one with different numbers.
C16_Witness ==
    /\ call.op = "collect"
    /\ Len(collection_history) = 2
    /\ collection_history[1] # collection_history[2]
    /\ collection_history[2] = call.stats

\* C17: collected_count + |all_objects| is the number of allocate() calls,
\* collected_count never decreases, and it grows exactly by the objects that
\* leave all_objects, which never come back (each is counted once).
C17_ReclamationAccounting ==
    /\ [](collected_count + Cardinality(all_objects) = id_counter)
    /\ [][/\ collected_count' >= collected_count
          /\ collected_count' - collected_count = Cardinality(all_objects \ all_objects')
          /\ (all_objects' \ all_objects) \cap DOMAIN state = {}]_vars

\* Every allocated object was reclaimed, in two separate cycles.
C17_Witness ==
    /\ Len(collection_history) = 2
    /\ collection_history[1].collected_objects = 1
    /\ collection_history[2].collected_objects = 1
    /\ collected_count = 2
    /\ all_objects = {}

\* C18: every object that is created, by this collector or elsewhere, gets
\* an id that no object had before and that is greater than every earlier
\* id, whether the earlier objects were swept or not; the counter never
\* goes back.
C18_MonotonicIdentity ==
    [][/\ id_counter' >= id_counter
       /\ \A o \in (DOMAIN state' \ DOMAIN state) \cup (all_objects' \ all_objects) :
             /\ o \notin DOMAIN state
             /\ \A p \in DOMAIN state : p < o
             /\ o = id_counter'
       /\ id_counter' # id_counter => DOMAIN state' # DOMAIN state]_vars

\* An object was allocated after an earlier one was swept and after another
\* one was created outside this collector.
C18_Witness ==
    /\ id_counter = 3
    /\ 3 \in all_objects
    /\ \E o \in 1..2 : state[o] = COLLECTED
    /\ \E o \in 1..2 : o \notin all_objects /\ state[o] = UNMARKED

\* No target occurs twice in a list.
NoDuplicates(refs) == \A i, j \in DOMAIN refs : refs[i] = refs[j] => i = j

\* C19: no reference list holds a target twice; add_reference of a target
\* already in the list returns the list unchanged, and a new target is put
\* at the end behind the unchanged earlier targets.
C19_NoDuplicateReferences ==
    \A self \in DOMAIN references :
        /\ NoDuplicates(references[self])
        /\ \A t \in Created :
              LET old == references[self]
                  new == AddRef(old, t)
              IN  /\ NoDuplicates(new)
                  /\ InList(old, t) => new = old
                  /\ ~InList(old, t) =>
                        /\ Len(new) = Len(old) + 1
                        /\ new[Len(new)] = t
                        /\ SubSeq(new, 1, Len(old)) = old

\* A list built in an order that is not the order of the ids.
C19_Witness ==
    \E self \in DOMAIN references :
        /\ Len(references[self]) = 3
        /\ references[self][1] > references[self][2]

\* C20: remove_reference(t) returns the list without t, the other targets in
\* their previous order; when t is not in the list, the list is unchanged.
C20_RemoveKeepsOrder ==
    \A self \in DOMAIN references : \A t \in Created :
        LET old == references[self]
            new == RemoveRef(old, t)
        IN  /\ ~InList(new, t)
            /\ new = SelectSeq(old, LAMBDA x : x # t)
            /\ ~InList(old, t) => new = old

\* A list of three targets (one to remove from the middle) next to a list
\* that holds none of them.
C20_Witness ==
    \E a, b \in DOMAIN references :
        /\ Len(references[a]) = 3
        /\ references[b] = << >>

\* The collector and object fields; call, the record of the last return
\* value, is not among them.
fields == <<id_counter, references, state, all_objects, roots, collected_count,
            collection_history>>

\* C21: allocate() adds exactly one new object to all_objects, with a fresh
\* id, an empty reference list and state UNMARKED, and leaves roots,
\* collected_count, collection_history and the state and references of every
\* other object unchanged.
C21_AllocateFrame ==
    [][id_counter' # id_counter =>
          /\ id_counter' \notin DOMAIN state
          /\ all_objects' = all_objects \cup {id_counter'}
          /\ Cardinality(all_objects') = Cardinality(all_objects) + 1
          /\ DOMAIN state' = DOMAIN state \cup {id_counter'}
          /\ references'[id_counter'] = << >>
          /\ state'[id_counter'] = UNMARKED
          /\ \A o \in DOMAIN state :
                state'[o] = state[o] /\ references'[o] = references[o]
          /\ UNCHANGED <<roots, collected_count, collection_history>>]_vars

\* A second object was allocated next to a swept one that holds a reference.
C21_Witness ==
    /\ id_counter = 2
    /\ state[1] = COLLECTED
    /\ references[1] # << >>
    /\ state[2] = UNMARKED
    /\ all_objects = {2}

\* C22: add_root(o) makes o a root and remove_root(o) makes o a non-root;
\* both change nothing but roots; add_root on a root and remove_root on a
\* non-root leave every field unchanged.
C22_RootBookkeeping ==
    [][\A o \in Created :
          /\ add_root(o) =>
                /\ o \in roots'
                /\ roots' \ {o} = roots \ {o}
                /\ UNCHANGED <<id_counter, references, state, all_objects,
                               collected_count, collection_history>>
                /\ o \in roots => UNCHANGED fields
          /\ remove_root(o) =>
                /\ o \notin roots'
                /\ roots' \ {o} = roots \ {o}
                /\ UNCHANGED <<id_counter, references, state, all_objects,
                               collected_count, collection_history>>
                /\ o \notin roots => UNCHANGED fields]_vars

\* Two roots, one of them swept, after a cycle.
C22_Witness ==
    /\ Cardinality(roots) = 2
    /\ collection_history # << >>
    /\ call.op = "other"

\* C23: get_stats() changes no field of the collector or of an object and
\* returns the sizes of all_objects and roots, collected_count and the length
\* of collection_history.
C23_GetStatsPureRead ==
    [][call'.op = "get_stats" =>
          /\ UNCHANGED fields
          /\ call'.stats.total_objects = Cardinality(all_objects)
          /\ call'.stats.root_objects = Cardinality(roots)
          /\ call'.stats.total_collected = collected_count
          /\ call'.stats.collection_cycles = Len(collection_history)]_vars

\* get_stats() returned four different numbers, with swept objects around.
C23_Witness ==
    /\ call.op = "get_stats"
    /\ call.stats.total_objects = 1
    /\ call.stats.root_objects = 2
    /\ call.stats.total_collected = 1
    /\ call.stats.collection_cycles = 2

\* The objects mark() returns from at once in the coming mark phase: the
\* ones still MARKED after the reset loop.
Blocked == {o \in DOMAIN state : ResetAll(state, all_objects)[o] = MARKED}

RECURSIVE OpenClosure(_)
\* Reachability along references, as a set: no order of roots or of sibling
\* references enters.
OpenClosure(S) ==
    LET T == S \cup (UNION {Refs(o) : o \in S} \ Blocked)
    IN  IF T = S THEN S ELSE OpenClosure(T)

\* The object states a mark phase leaves, computed from sets only.
MarkedStates ==
    LET reached == OpenClosure(roots \ Blocked)
    IN  [o \in DOMAIN state |->
            IF o \in reached THEN MARKED ELSE ResetAll(state, all_objects)[o]]

\* C24: the object states mark_phase() leaves, the count it returns and the
\* survivors of collect() are the same for every iteration order of the
\* roots, and they are those given by the reference relation taken as sets,
\* so the order of sibling references does not matter either.
C24_OrderIndependence ==
    \A order \in Orders(roots) :
        /\ mark_phase_state(order) = MarkedStates
        /\ MarkedCount(mark_phase_state(order), all_objects)
              = MarkedCount(MarkedStates, all_objects)
        /\ Survivors(order) = SweepObjects(all_objects, Garbage(MarkedStates, all_objects))

\* A mark phase over two roots, one of which holds two sibling references,
\* with an object the traversal does not enter.
C24_Witness ==
    /\ call.op = "mark_phase"
    /\ Cardinality(roots) >= 2
    /\ \E r \in roots : Len(references[r]) >= 2
    /\ Blocked # {}

\* C25: collect() changes neither roots nor any reference list, of a
\* surviving object or of a swept one.
C25_CollectKeepsEdges ==
    [][CollectStep =>
          /\ roots' = roots
          /\ DOMAIN references' = DOMAIN references
          /\ \A o \in DOMAIN references : references'[o] = references[o]]_vars

\* After a cycle: a swept object still holds a reference, and a survivor
\* holds a reference to that swept object.
C25_Witness ==
    /\ call.op = "collect"
    /\ \E a \in all_objects : \E b \in Created \ all_objects :
          /\ InList(references[a], b)
          /\ references[b] # << >>

\* C26: between cycles a member of all_objects is UNMARKED exactly if it
\* was allocated after the most recent collect() (ids grow with time, so: if
\* its id lies above the counter value of that moment) and MARKED otherwise;
\* before the first collect() every member is UNMARKED and right after a
\* collect() every member is MARKED; no other operation changes the state of
\* a member.
C26_MarkStateBetweenCycles ==
    /\ [](\E k \in 0..id_counter : \A o \in all_objects :
              state[o] = IF o > k THEN UNMARKED ELSE MARKED)
    /\ [](\A o \in all_objects :
              /\ collection_history = << >> => state[o] = UNMARKED
              /\ call.op = "collect" => state[o] = MARKED)
    /\ [][\A o \in all_objects' :
              state'[o] = IF CollectStep THEN MARKED
                          ELSE IF o \in all_objects THEN state[o] ELSE UNMARKED]_vars

\* A survivor of the last cycle next to an object allocated after it.
C26_Witness ==
    /\ collection_history # << >>
    /\ all_objects = {1, 2}
    /\ state[1] = MARKED
    /\ state[2] = UNMARKED

Handles == {objects[n] : n \in DOMAIN objects}

\* C28: in the interactive shell every object in the name-to-object map is a
\* member of all_objects and so is every root; a command that names an
\* object not in the map, and alloc with a name already in the map, leave the
\* collector, the objects and the map unchanged (a step that changes one of
\* them is no such command).
C28_ShellHandlesLive ==
    /\ [](Handles \subseteq all_objects /\ roots \subseteq all_objects)
    /\ [][UNCHANGED <<fields, objects>> \/
          \A x \in Known :
             /\ ~(x \in DOMAIN objects /\ do_alloc(x, ShellObjects))
             /\ ~(x \notin DOMAIN objects /\ (do_root(x) \/ do_unroot(x)))
             /\ \A y \in Known :
                  ~((x \notin DOMAIN objects \/ y \notin DOMAIN objects)
                     /\ (do_ref(x, y, ShellEdges) \/ do_unref(x, y)))]_vars

\* After a collect command: a name was deleted from the map, a rooted object
\* is still in it.
C28_Witness ==
    /\ call.op = "collect"
    /\ call.stats.collected_objects > 0
    /\ Cardinality(DOMAIN objects) < call.stats.initial_objects
    /\ \E n \in DOMAIN objects : objects[n] \in roots

====
